---- MODULE Spec2Model ----
(***************************************************************************)
(* Panorama renderer (window.Panorama) of webvrtour: the constructor that  *)
(* builds the sphere mesh and uploads it, setImage with its image load and *)
(* error handlers, and render, over a recorded WebGL context; and the page  *)
(* script vr.js that starts it, drives the frame loop and enters and       *)
(* leaves VR presentation.                                                 *)
(***************************************************************************)
EXTENDS Integers, Sequences, FiniteSets, TLC

VARIABLES
  pc,           \* position of the constructor: "new" .. "done"
  i,            \* var i of the constructor's two outer loops
  latSegments,  \* var latSegments
  lonSegments,  \* var lonSegments
  panoVerts,    \* var panoVerts  (flat array, 5 numbers per vertex)
  panoIndices,  \* var panoIndices
  texture,      \* this.texture
  glProgram,    \* this.glProgram
  vertBuffer,   \* this.vertBuffer
  indexBuffer,  \* this.indexBuffer
  indexCount,   \* this.indexCount
  imgElement,   \* this.imgElement
  glObjects,    \* WebGL context: every object handle it has created
  glBuffers,    \* WebGL context: size and usage of each buffer's data store
  glTextures,   \* WebGL context: level-0 image and parameters of each texture
  glState,      \* WebGL context: current program, uniforms, bindings, attributes
  loads,        \* one entry per setImage call: its Image and its Promise
  loadEvents,   \* the setImage calls and image events, in the order they ran
  lastRender,   \* the most recent render call: its arguments, the GL calls it
                \* issued, and how many load events had run before it
  prevRender,   \* the render call before it
  \* ---- the page script (vr.js) ----
  started,          \* how far the script has come: "load", "waiting" for
                    \* getVRDisplays, "running" (init has run), "failed"
  vrDisplay,        \* var vrDisplay
  isPresenting,     \* vrDisplay.isPresenting
  frameData,        \* var frameData
  vrPresentButton,  \* var vrPresentButton
  domButtons,       \* the buttons VRSamplesUtil has in the document
  notices,          \* messages shown by VRSamplesUtil.addError / addInfo
  gl,               \* var gl
  panorama,         \* var panorama
  glEnabled,        \* capabilities switched on with gl.enable
  canvas,           \* webglCanvas.width and webglCanvas.height
  rafPending,       \* onAnimationFrame callbacks requested and not yet run,
                    \* on the window and on the VR display
  tasks,            \* requestPresent / exitPresent promises in flight, their
                    \* callbacks ready to run, vrdisplaypresentchange events queued
  presentListener,  \* the vrdisplaypresentchange listener is registered
  vrViewMat,        \* var viewMat of vr.js
  flatProjectionMat,\* var projectionMat of vr.js
  frame             \* what the most recent onAnimationFrame call did, in order

vars == <<pc, i, latSegments, lonSegments, panoVerts, panoIndices, texture,
          glProgram, vertBuffer, indexBuffer, indexCount, imgElement,
          glObjects, glBuffers, glTextures, glState, loads, loadEvents,
          lastRender, prevRender, started, vrDisplay, isPresenting, frameData,
          vrPresentButton, domButtons, notices, gl, panorama, glEnabled,
          canvas, rafPending, tasks, presentListener, vrViewMat,
          flatProjectionMat, frame>>

meshVars == <<i, latSegments, lonSegments, panoVerts, panoIndices>>
fieldVars == <<texture, glProgram, vertBuffer, indexBuffer, indexCount, imgElement>>
glVars == <<glObjects, glBuffers, glTextures, glState>>
loadVars == <<loads, loadEvents>>
renderVars == <<lastRender, prevRender>>
shellVars == <<started, vrDisplay, isPresenting, frameData, vrPresentButton,
               domButtons, notices, gl, panorama, glEnabled, canvas,
               rafPending, tasks, presentListener, vrViewMat,
               flatProjectionMat, frame>>

(* ---- bounds ---- *)
MaxSeg == 5        \* small tessellations tried beside the reference one
MaxLoads == 2      \* setImage calls per run

(* ---- program constants ---- *)
radius == 2
RefLatSegments == 40
RefLonSegments == 40
FloatsPerVertex == 5
Uint16Modulus == 65536
Float32Bytes == 4
Uint16Bytes == 2

\* JavaScript values: objects are records carrying their type
null == [type |-> "null"]
undefined == [type |-> "undefined"]

(* ---- Mesh generation (constructor, lines 56-98) ---- *)

\* Numbers the constructor computes with Math.sin/Math.cos are kept symbolic:
\* the product of the trigonometric terms of grid point (row i, column j) and
\* the radius; row is the outer loop's i.
VertexComponents(row, j, L, N) ==
  << <<"sinPhi*sinTheta*r", row, j, radius>>,
     <<"cosTheta*r", row, radius>>,
     <<"-cosPhi*sinTheta*r", row, j, radius>>,
     <<"div", j, N>>,
     <<"div", row, L>> >>

RECURSIVE VertsRow(_, _, _, _, _)
\* inner loop: for (var j=0; j <= lonSegments; ++j) panoVerts.push(x, y, z, u, v)
VertsRow(row, j, L, N, acc) ==
  IF j <= N
    THEN VertsRow(row, j + 1, L, N, acc \o VertexComponents(row, j, L, N))
    ELSE acc

\* the quad one column to the left: index0 - 1 is below zero at column 0
QuadIndicesBackward(index0, index1) ==
  <<index0 - 1, index1 - 1, index0, index1 - 1, index1, index0>>
\* lines 91-96: the two triangles of one quad
QuadIndices(index0, index1) ==
  <<index0, index1, index0 + 1, index1, index1 + 1, index0 + 1>>

RECURSIVE IndicesRowInclusive(_, _, _, _, _)
\* the inner loop run to j <= lonSegments, as the vertex loop is
IndicesRowInclusive(offset0, offset1, j, N, acc) ==
  IF j <= N
    THEN IndicesRowInclusive(offset0, offset1, j + 1, N,
                             acc \o QuadIndices(offset0 + j, offset1 + j))
    ELSE acc

RECURSIVE IndicesRow(_, _, _, _, _)
\* inner loop: for (var j = 0; j < lonSegments; ++j) panoIndices.push(...)
IndicesRow(offset0, offset1, j, N, acc) ==
  IF j < N
    THEN IndicesRow(offset0, offset1, j + 1, N,
                    acc \o QuadIndices(offset0 + j, offset1 + j))
    ELSE acc

RECURSIVE VertsRows(_, _, _, _)
\* passes lo .. hi-1 of the outer loop of lines 66-84, in order.  The range is
\* halved so that the evaluation nests no deeper than one row.
VertsRows(lo, hi, L, N) ==
  IF hi <= lo THEN <<>>
  ELSE IF hi = lo + 1 THEN VertsRow(lo, 0, L, N, <<>>)
  ELSE LET mid == (lo + hi) \div 2
       IN VertsRows(lo, mid, L, N) \o VertsRows(mid, hi, L, N)

\* panoVerts when the loop of lines 66-84 exits: i ran from 0 to latSegments
MeshVerts(L, N) == VertsRows(0, L + 1, L, N)

RECURSIVE IndicesRows(_, _, _)
\* passes lo .. hi-1 of the outer loop of lines 87-98, in order
IndicesRows(lo, hi, N) ==
  IF hi <= lo THEN <<>>
  ELSE IF hi = lo + 1
    THEN IndicesRow(lo * (N + 1), (lo + 1) * (N + 1), 0, N, <<>>)
  ELSE LET mid == (lo + hi) \div 2
       IN IndicesRows(lo, mid, N) \o IndicesRows(mid, hi, N)

\* panoIndices when the loop of lines 87-98 exits: i ran from 0 to latSegments-1
MeshIndices(L, N) == IndicesRows(0, L, N)

\* new Float32Array(panoVerts): each number rounded to single precision
Float32Array(a) == [k \in 1..Len(a) |-> <<"f32", a[k]>>]
\* new Uint16Array(panoIndices): each number taken modulo 2^16
Uint16Array(a) == [k \in 1..Len(a) |-> a[k] % Uint16Modulus]

\* gl.bufferData(target, typedArray, gl.STATIC_DRAW): the context allocates a
\* store of the array's byte length.  WebGL 1 cannot read a buffer back, so
\* the context is recorded by what it reports of a buffer: size and usage.
BufferData(typedArray, bytesPerElement) ==
  [size |-> Len(typedArray) * bytesPerElement, usage |-> "STATIC_DRAW"]

(* ---- WebGL context ---- *)

Handle(kind, n) == [type |-> kind, n |-> n]
\* gl.createTexture / gl.createBuffer / new WGLUProgram: a handle not yet in use
NewHandle(kind, objects) ==
  Handle(kind, Cardinality({o \in objects : o.type = kind}) + 1)

NoTexImage == [image |-> null, magFilter |-> "NEAREST_MIPMAP_LINEAR_DEFAULT",
               minFilter |-> "DEFAULT", wrapS |-> "REPEAT", wrapT |-> "REPEAT",
               uploads |-> 0]

InitGlState ==
  [program |-> null, projectionMat |-> null, modelViewMat |-> null,
   diffuse |-> null, arrayBuffer |-> null, elementArrayBuffer |-> null,
   attribs |-> {}, pointers |-> {}, activeTexture |-> 0, texture2D |-> null]

NoRender == [called |-> FALSE, projectionMat |-> "none", modelViewMat |-> "none",
             calls |-> <<>>, at |-> 0]

(* ---- The page script before it runs (vr.js lines 15-33) ---- *)

NoTasks == [requestPresent |-> 0, exitPresent |-> 0, presentResolved |-> 0,
            presentRejected |-> 0, exitResolved |-> 0, exitRejected |-> 0,
            presentchange |-> 0]
NoFrames == [window |-> 0, display |-> 0]
\* a 4x4 matrix, kept as the computation that produced it: the operation, its
\* two numeric arguments and its quaternion argument (0, 0, null where unused)
Mat4(op, a, b, q) == [type |-> "mat4", op |-> op, a |-> a, b |-> b, q |-> q]
\* mat4.create(): the identity matrix
Mat4Identity == Mat4("identity", 0, 0, null)

\* vr.js lines 16-33: the script's variables as declared
ShellIdle ==
  /\ started = "load"
  /\ vrDisplay = null
  /\ isPresenting = FALSE
  /\ frameData = null
  /\ vrPresentButton = null
  /\ domButtons = {}
  /\ notices = {}
  /\ gl = null
  /\ panorama = null
  /\ glEnabled = {}
  /\ canvas = [width |-> 300, height |-> 150]
  /\ rafPending = NoFrames
  /\ tasks = NoTasks
  /\ presentListener = FALSE
  /\ vrViewMat = Mat4Identity
  /\ flatProjectionMat = Mat4Identity
  /\ frame = <<>>

(* ---- Constructor, step by step (lines 42-111) ---- *)

SegmentPairs ==
  ((1..MaxSeg) \X (1..MaxSeg)) \cup {<<RefLatSegments, RefLonSegments>>}

InitNew(L, N) ==
  /\ pc = "new"
  /\ i = 0
  /\ latSegments = L
  /\ lonSegments = N
  /\ panoVerts = <<>>
  /\ panoIndices = <<>>
  /\ texture = undefined
  /\ glProgram = undefined
  /\ vertBuffer = undefined
  /\ indexBuffer = undefined
  /\ indexCount = undefined
  /\ imgElement = undefined
  /\ glObjects = {}
  /\ glBuffers = <<>>
  /\ glTextures = <<>>
  /\ glState = InitGlState
  /\ loads = <<>>
  /\ loadEvents = <<>>
  /\ lastRender = NoRender
  /\ prevRender = NoRender

InitMesh == ShellIdle /\ \E p \in SegmentPairs : InitNew(p[1], p[2])

\* lines 43-54: this.texture = gl.createTexture(); program compiled and linked
CreateTextureAndProgram ==
  /\ pc = "new"
  /\ UNCHANGED shellVars
  /\ LET t == NewHandle("texture", glObjects)
         p == NewHandle("program", glObjects)
     IN /\ texture' = t
        /\ glProgram' = p
        /\ glObjects' = glObjects \cup {t, p}
        /\ glTextures' = (t :> NoTexImage)
  /\ pc' = "verts"
  /\ UNCHANGED <<meshVars, vertBuffer, indexBuffer, indexCount, imgElement,
                 glBuffers, glState, loadVars, renderVars>>

\* lines 66-84, one pass of the outer loop: a full row of vertices
BuildVertsRow ==
  /\ pc = "verts"
  /\ UNCHANGED shellVars
  /\ i <= latSegments
  /\ panoVerts' = VertsRow(i, 0, latSegments, lonSegments, panoVerts)
  /\ i' = i + 1
  /\ UNCHANGED <<pc, latSegments, lonSegments, panoIndices, fieldVars, glVars,
                 loadVars, renderVars>>

\* line 66 exit, line 87 entry
VertsDone ==
  /\ pc = "verts"
  /\ UNCHANGED shellVars
  /\ ~(i <= latSegments)
  /\ pc' = "indices"
  /\ i' = 0
  /\ UNCHANGED <<latSegments, lonSegments, panoVerts, panoIndices, fieldVars,
                 glVars, loadVars, renderVars>>

\* lines 87-98, one pass of the outer loop: the quads between rows i and i+1
BuildIndicesRow ==
  /\ pc = "indices"
  /\ UNCHANGED shellVars
  /\ i < latSegments
  /\ LET offset0 == i * (lonSegments + 1)
         offset1 == (i + 1) * (lonSegments + 1)
     IN panoIndices' = IndicesRow(offset0, offset1, 0, lonSegments, panoIndices)
  /\ i' = i + 1
  /\ UNCHANGED <<pc, latSegments, lonSegments, panoVerts, fieldVars, glVars,
                 loadVars, renderVars>>

\* line 87 exit
IndicesDone ==
  /\ pc = "indices"
  /\ UNCHANGED shellVars
  /\ ~(i < latSegments)
  /\ pc' = "vertBuffer"
  /\ UNCHANGED <<meshVars, fieldVars, glVars, loadVars, renderVars>>

\* lines 100-102
UploadVerts ==
  /\ pc = "vertBuffer"
  /\ UNCHANGED shellVars
  /\ LET b == NewHandle("buffer", glObjects)
     IN /\ vertBuffer' = b
        /\ glObjects' = glObjects \cup {b}
        /\ glState' = [glState EXCEPT !.arrayBuffer = b]
        /\ glBuffers' = (b :> BufferData(Float32Array(panoVerts), Float32Bytes))
  /\ pc' = "indexBuffer"
  /\ UNCHANGED <<meshVars, texture, glProgram, indexBuffer, indexCount,
                 imgElement, glTextures, loadVars, renderVars>>

\* lines 104-110
UploadIndices ==
  /\ pc = "indexBuffer"
  /\ UNCHANGED shellVars
  /\ LET b == NewHandle("buffer", glObjects)
     IN /\ indexBuffer' = b
        /\ glObjects' = glObjects \cup {b}
        /\ glState' = [glState EXCEPT !.elementArrayBuffer = b]
        /\ glBuffers' =
             glBuffers @@ (b :> BufferData(Uint16Array(panoIndices), Uint16Bytes))
  /\ indexCount' = Len(panoIndices)
  /\ imgElement' = null
  \* line 111: the constructor returns and its local arrays go out of scope
  /\ panoVerts' = <<>>
  /\ panoIndices' = <<>>
  /\ pc' = "done"
  /\ UNCHANGED <<i, latSegments, lonSegments, texture, glProgram, vertBuffer,
                 glTextures, loadVars, renderVars>>

NextMesh ==
  \/ CreateTextureAndProgram
  \/ BuildVertsRow
  \/ VertsDone
  \/ BuildIndicesRow
  \/ IndicesDone
  \/ UploadVerts
  \/ UploadIndices

SpecMesh == InitMesh /\ [][NextMesh]_vars

(* ---- setImage (lines 113-139) ---- *)

URLs == {"kla_office_1.jpg", "kla_office_2.jpg"}

Truthy(x) == x \notin {null, undefined}

\* new Promise(...): pending until resolve or reject is first called
NewPromise == [state |-> "pending", value |-> undefined]
\* resolve(v) / reject(v): only the first call on a promise settles it
Resolve(p, v) ==
  IF p.state = "pending" THEN [state |-> "fulfilled", value |-> v] ELSE p
Reject(p, v) ==
  IF p.state = "pending" THEN [state |-> "rejected", value |-> v] ELSE p

\* lines 118, 136, 137: the Image of the n-th setImage call
NewImage(n, url) == [type |-> "Image", id |-> n, crossOrigin |-> "anonymous", src |-> url]

BindTextureSkipped(st, tex) == st
\* gl.bindTexture(gl.TEXTURE_2D, tex): binds on the active texture unit
BindTexture(st, tex) == [st EXCEPT !.texture2D = tex]

\* the upload left to a later task: the call returns with the texture untouched
TexImage2DDeferred(textures, st, img) == textures
\* gl.texImage2D(gl.TEXTURE_2D, 0, gl.RGB, gl.RGB, gl.UNSIGNED_BYTE, img):
\* replaces level 0 of the texture bound to TEXTURE_2D
TexImage2D(textures, st, img) ==
  IF st.texture2D \in DOMAIN textures
    THEN [textures EXCEPT ![st.texture2D].image = img,
                          ![st.texture2D].uploads = @ + 1]
    ELSE textures  \* INVALID_OPERATION: no texture bound

\* lines 125-128: the four gl.texParameteri calls on the bound texture
TexParameters(textures, st) ==
  IF st.texture2D \in DOMAIN textures
    THEN [textures EXCEPT ![st.texture2D].magFilter = "LINEAR",
                          ![st.texture2D].minFilter = "LINEAR",
                          ![st.texture2D].wrapS = "CLAMP_TO_EDGE",
                          ![st.texture2D].wrapT = "CLAMP_TO_EDGE"]
    ELSE textures

\* keeps the image of the call issued latest, dropping a stale completion
ImgElementOnLoadNewestIssued(current, img) ==
  IF Truthy(current) /\ current.id > img.id THEN current ELSE img
\* keeps the image of the first completed load
ImgElementOnLoadFirstWins(current, img) ==
  IF Truthy(current) THEN current ELSE img
\* line 120: self.imgElement = img
ImgElementOnLoad(current, img) == img

ImgElementOnErrorStored(current, img) == img
ImgElementOnErrorReset(current, img) == null
\* lines 132-135: the error handler assigns no field
ImgElementOnError(current, img) == current

\* a setImage that drops the stored image while the new one is fetched
SetImageClearing(url) ==
  /\ pc = "done"
  /\ UNCHANGED shellVars
  /\ Len(loads) < MaxLoads
  /\ LET n == Len(loads) + 1
     IN /\ loads' = Append(loads, [img |-> NewImage(n, url), fired |-> "none",
                                   promise |-> NewPromise])
        /\ loadEvents' = Append(loadEvents, <<"setImage", n>>)
  /\ imgElement' = null
  /\ UNCHANGED <<pc, meshVars, texture, glProgram, vertBuffer, indexBuffer,
                 indexCount, glVars, renderVars>>
\* lines 113-118, 136-138: the call returns a pending promise; the fetch starts
SetImage(url) ==
  /\ pc = "done"
  /\ UNCHANGED shellVars
  /\ Len(loads) < MaxLoads
  /\ LET n == Len(loads) + 1
     IN /\ loads' = Append(loads, [img |-> NewImage(n, url), fired |-> "none",
                                   promise |-> NewPromise])
        /\ loadEvents' = Append(loadEvents, <<"setImage", n>>)
  /\ UNCHANGED <<pc, meshVars, fieldVars, glVars, renderVars>>

\* lines 119-131: the 'load' listener of the n-th call's Image
OnLoad(n) ==
  /\ pc = "done"
  /\ UNCHANGED shellVars
  /\ n \in 1..Len(loads)
  /\ loads[n].fired = "none"
  /\ LET img == loads[n].img
         bound == BindTexture(glState, texture)
     IN /\ imgElement' = ImgElementOnLoad(imgElement, img)
        /\ glState' = bound
        /\ glTextures' = TexParameters(TexImage2D(glTextures, bound, img), bound)
        /\ loads' = [loads EXCEPT ![n].fired = "load",
                                  ![n].promise = Resolve(@, imgElement')]
  /\ loadEvents' = Append(loadEvents, <<"load", n>>)
  /\ UNCHANGED <<pc, meshVars, texture, glProgram, vertBuffer, indexBuffer,
                 indexCount, glObjects, glBuffers, renderVars>>

\* an error listener that fetches the same locator again on its own
OnErrorRetrying(n) ==
  /\ pc = "done"
  /\ UNCHANGED shellVars
  /\ n \in 1..Len(loads)
  /\ loads[n].fired = "none"
  /\ imgElement' = ImgElementOnError(imgElement, loads[n].img)
  /\ loads' = Append([loads EXCEPT ![n].fired = "error",
                                   ![n].promise = Reject(@, undefined)],
                     [img |-> NewImage(Len(loads) + 1, loads[n].img.src),
                      fired |-> "none", promise |-> NewPromise])
  /\ loadEvents' = Append(loadEvents, <<"error", n>>)
  /\ UNCHANGED <<pc, meshVars, texture, glProgram, vertBuffer, indexBuffer,
                 indexCount, glVars, renderVars>>
\* lines 132-135: the 'error' listener of the n-th call's Image
OnError(n) ==
  /\ pc = "done"
  /\ UNCHANGED shellVars
  /\ n \in 1..Len(loads)
  /\ loads[n].fired = "none"
  /\ imgElement' = ImgElementOnError(imgElement, loads[n].img)
  /\ loads' = [loads EXCEPT ![n].fired = "error",
                            ![n].promise = Reject(@, undefined)]
  /\ loadEvents' = Append(loadEvents, <<"error", n>>)
  /\ UNCHANGED <<pc, meshVars, texture, glProgram, vertBuffer, indexBuffer,
                 indexCount, glVars, renderVars>>

(* ---- render (lines 145-177) ---- *)

ProjectionMats == {"Pl", "Pr"}
ViewMats == {"V1", "V2"}

RenderGuardMissing(img) == FALSE
\* line 149: if (!this.imgElement) return;
RenderGuard(img) == ~Truthy(img)

DrawCountLessOneTriangle(count) == count - 3
\* line 176: the count argument of gl.drawElements
DrawCount(count) == count

\* line 152: glProgram.use() makes the renderer's program the current one
ProgramUse == <<"useProgram", glProgram>>

\* lines 152-176: the graphics-context calls of one render, in order
GlCallSequence(projectionMat, modelViewMat) ==
  << ProgramUse,
     <<"uniformMatrix4fv", "projectionMat", FALSE, projectionMat>>,
     <<"uniformMatrix4fv", "modelViewMat", FALSE, modelViewMat>>,
     <<"bindBuffer", "ARRAY_BUFFER", vertBuffer>>,
     <<"bindBuffer", "ELEMENT_ARRAY_BUFFER", indexBuffer>>,
     <<"enableVertexAttribArray", "position">>,
     <<"enableVertexAttribArray", "texCoord">>,
     <<"vertexAttribPointer", "position", 3, "FLOAT", FALSE, 20, 0>>,
     <<"vertexAttribPointer", "texCoord", 2, "FLOAT", FALSE, 20, 12>>,
     <<"activeTexture", 0>>,
     <<"uniform1i", "diffuse", 0>>,
     <<"bindTexture", "TEXTURE_2D", texture>>,
     <<"drawElements", "TRIANGLES", DrawCount(indexCount), "UNSIGNED_SHORT", 0>> >>

\* uploads the module-level projectionMat of line 15 instead of the argument
RenderCallsModuleMatrix(projectionMat, modelViewMat) ==
  GlCallSequence("mat4.create()", modelViewMat)
\* skips glProgram.use() when the program is already current
RenderCallsCachedProgram(projectionMat, modelViewMat) ==
  IF glState.program = glProgram
    THEN Tail(GlCallSequence(projectionMat, modelViewMat))
    ELSE GlCallSequence(projectionMat, modelViewMat)
\* binds the texture only after the draw call
RenderCallsTextureAfterDraw(projectionMat, modelViewMat) ==
  LET s == GlCallSequence(projectionMat, modelViewMat)
  IN SubSeq(s, 1, 11) \o <<s[13], s[12]>>
\* lines 145, 152-176: render passes its two arguments on unchanged
RenderCalls(projectionMat, modelViewMat) ==
  GlCallSequence(projectionMat, modelViewMat)

\* the context state those calls leave behind
RenderGlState(st, projectionMat, modelViewMat) ==
  [st EXCEPT !.program = glProgram,
             !.projectionMat = projectionMat,
             !.modelViewMat = modelViewMat,
             !.arrayBuffer = vertBuffer,
             !.elementArrayBuffer = indexBuffer,
             !.attribs = {"position", "texCoord"},
             !.pointers = {<<"position", 3, 20, 0>>, <<"texCoord", 2, 20, 12>>},
             !.activeTexture = 0,
             !.diffuse = 0,
             !.texture2D = texture]

RenderFieldsRecount ==
  /\ indexCount' = indexCount + 6
  /\ UNCHANGED <<texture, glProgram, vertBuffer, indexBuffer, imgElement>>
\* the fields render may assign: none
RenderFields ==
  UNCHANGED <<texture, glProgram, vertBuffer, indexBuffer, indexCount, imgElement>>

Render(projectionMat, modelViewMat) ==
  /\ pc = "done"
  /\ UNCHANGED shellVars
  /\ LET calls == IF RenderGuard(imgElement)
                    THEN <<>>
                    ELSE RenderCalls(projectionMat, modelViewMat)
     IN /\ lastRender' = [called |-> TRUE,
                          projectionMat |-> projectionMat,
                          modelViewMat |-> modelViewMat,
                          calls |-> calls,
                          at |-> Len(loadEvents)]
        /\ glState' = IF RenderGuard(imgElement)
                        THEN glState
                        ELSE RenderGlState(glState, projectionMat, modelViewMat)
  /\ prevRender' = lastRender
  /\ RenderFields
  /\ UNCHANGED <<pc, meshVars, glObjects, glBuffers, glTextures, loadVars>>

(* ---- The renderer: constructed with the reference tessellation, then used ---- *)

\* What the constructor (lines 42-111) leaves behind on a fresh context, for
\* tessellation L x N: the renderer's fields and the context's objects
ConstructorResult(L, N) ==
  LET t == NewHandle("texture", {})
      p == NewHandle("program", {})
      vb == NewHandle("buffer", {t, p})
      ib == NewHandle("buffer", {t, p, vb})
  IN [texture |-> t,
      glProgram |-> p,
      vertBuffer |-> vb,
      indexBuffer |-> ib,
      indexCount |-> Len(MeshIndices(L, N)),
      imgElement |-> null,
      glObjects |-> {t, p, vb, ib},
      glBuffers |->
          (vb :> BufferData(Float32Array(MeshVerts(L, N)), Float32Bytes))
          @@ (ib :> BufferData(Uint16Array(MeshIndices(L, N)), Uint16Bytes)),
      glTextures |-> (t :> NoTexImage),
      glState |-> [InitGlState EXCEPT !.arrayBuffer = vb,
                                      !.elementArrayBuffer = ib]]

\* The state the constructor (lines 42-111) returns with, for tessellation L x N
ConstructedState(L, N) ==
  LET c == ConstructorResult(L, N)
  IN /\ pc = "done"
     /\ i = L
     /\ latSegments = L
     /\ lonSegments = N
     /\ panoVerts = <<>>
     /\ panoIndices = <<>>
     /\ texture = c.texture
     /\ glProgram = c.glProgram
     /\ vertBuffer = c.vertBuffer
     /\ indexBuffer = c.indexBuffer
     /\ indexCount = c.indexCount
     /\ imgElement = c.imgElement
     /\ glObjects = c.glObjects
     /\ glBuffers = c.glBuffers
     /\ glTextures = c.glTextures
     /\ glState = c.glState
     /\ loads = <<>>
     /\ loadEvents = <<>>
     /\ lastRender = NoRender
     /\ prevRender = NoRender

Init == ShellIdle /\ ConstructedState(RefLatSegments, RefLonSegments)

Next ==
  \/ \E url \in URLs : SetImage(url)
  \/ \E n \in 1..MaxLoads : OnLoad(n)
  \/ \E n \in 1..MaxLoads : OnError(n)
  \/ \E P \in ProjectionMats, V \in ViewMats : Render(P, V)

Spec == Init /\ [][Next]_vars

\* The constructor run step by step ends in the state ConstructedState gives
ConstructorAgrees ==
  pc = "done" => ConstructedState(latSegments, lonSegments)

(* ---- The page script vr.js: values and helpers ---- *)

\* how many VR displays getVRDisplays reports: none, or several
DisplayCounts == {0, 2}
MaxPending == 2    \* promises in flight, callbacks and events queued at once

\* offsetWidth, offsetHeight of the canvas, and window.devicePixelRatio, as
\* the page layout has them when onResize reads them
Layouts == {<<375, 667>>}
DevicePixelRatios == {1, 2}
\* pose.orientation as VRDisplay.getFrameData fills it in: a quaternion, or
\* null while the sensor gives no orientation
Quat(name) == [type |-> "quat", name |-> name]
Orientations == {null, Quat("q1"), Quat("q2")}

\* a number of pixels; w * 0.5 is kept exact
Num(n) == [num |-> n, den |-> 1]
Half(n) == [num |-> n, den |-> 2]

\* lines 95-96: the drawing-buffer size onResize assigns
CanvasSize(layout, dpr) == [width |-> layout[1] * dpr, height |-> layout[2] * dpr]

\* line 42: webglCanvas.getContext("webgl", glAttribs)
GlContext == [type |-> "WebGLRenderingContext"]
\* line 49: new Panorama(gl)
PanoramaObject == [type |-> "Panorama"]
\* line 146: new VRFrameData()
NewFrameData ==
  [type |-> "VRFrameData",
   leftProjectionMatrix |-> Mat4("zero", 0, 0, null),
   rightProjectionMatrix |-> Mat4("zero", 0, 0, null),
   pose |-> [orientation |-> null]]
\* line 120: vrDisplay.getFrameData(frameData) fills in the frame's matrices
\* and pose
GetFrameData(q) ==
  [type |-> "VRFrameData",
   leftProjectionMatrix |-> Mat4("leftProjectionMatrix", 0, 0, null),
   rightProjectionMatrix |-> Mat4("rightProjectionMatrix", 0, 0, null),
   pose |-> [orientation |-> q]]
\* lines 151-155: displays[displays.length - 1], with its depth range set
LastDisplay(k) ==
  [type |-> "VRDisplay", id |-> k, depthNear |-> "0.1", depthFar |-> "1024.0"]

\* mat4.fromQuat(out, q) reads q[0..3]: a TypeError when q is null
FromQuatThrows(q) == ~Truthy(q)
\* lines 99-106: getPoseMatrix(out, pose), out = invert(fromQuat(orientation))
GetPoseMatrix(pose) == Mat4("invert(fromQuat(q))", 0, 0, pose.orientation)
\* line 139: mat4.perspective(projectionMat, Math.PI * 0.4, width / height, 0.1, 1024.0)
Perspective(c) == Mat4("perspective(0.4pi, a/b, 0.1, 1024)", c.width, c.height, null)

\* lines 127, 130: the viewport of one eye, the left or the right half
EyeViewport(eye, c) ==
  IF eye = "left"
    THEN <<"viewport", Num(0), Num(0), Half(c.width), Num(c.height)>>
    ELSE <<"viewport", Half(c.width), Num(0), Half(c.width), Num(c.height)>>
\* line 138: the whole drawing buffer
FullViewport(c) == <<"viewport", Num(0), Num(0), Num(c.width), Num(c.height)>>

\* schedules the next frame on the window and, when presenting, on the display too
RequestFramesBoth(pending, presenting) ==
  [pending EXCEPT !.window = @ + 1,
                  !.display = @ + (IF presenting THEN 1 ELSE 0)]
\* lines 118, 137: the one requestAnimationFrame call of a frame, on the VR
\* display when presenting, on the window otherwise
RequestFrames(pending, presenting) ==
  IF presenting
    THEN [pending EXCEPT !.display = @ + 1]
    ELSE [pending EXCEPT !.window = @ + 1]

\* VRSamplesUtil.addButton(text, key, icon, callback): a new element in the
\* document, distinct from every element in it
AddButton(dom, text, onclick) ==
  [type |-> "button",
   id |-> CHOOSE n \in 1..(Cardinality(dom) + 1) :
            /\ \A b \in dom : b.id # n
            /\ \A m \in 1..(n - 1) : \E b \in dom : b.id = m,
   text |-> text,
   onclick |-> onclick]
\* VRSamplesUtil.removeButton(button): takes the element out of the document
RemoveButton(dom, button) == dom \ {button}

\* adds the new button beside the one on show
ReplaceButtonKeepingOld(dom, current, text, onclick) ==
  LET b == AddButton(dom, text, onclick)
  IN [dom |-> dom \cup {b}, button |-> b]
\* lines 62-63, 77-78, 86-91: removeButton(vrPresentButton), then
\* vrPresentButton = addButton(...)
ReplaceButton(dom, current, text, onclick) ==
  LET removed == RemoveButton(dom, current)
      b == AddButton(removed, text, onclick)
  IN [dom |-> removed \cup {b}, button |-> b]

Pending(t) ==
  t.requestPresent + t.exitPresent + t.presentResolved + t.presentRejected
    + t.exitResolved + t.exitRejected + t.presentchange

\* one panorama.render(P, V) call as onAnimationFrame makes it
RenderOnce(projectionMat, modelViewMat) ==
  [called |-> TRUE,
   projectionMat |-> projectionMat,
   modelViewMat |-> modelViewMat,
   calls |-> IF RenderGuard(imgElement)
               THEN <<>>
               ELSE RenderCalls(projectionMat, modelViewMat),
   at |-> Len(loadEvents)]

rendererVars == <<pc, meshVars, fieldVars, glVars, loadVars, renderVars>>

(* ---- The page script vr.js: start-up (lines 36-54, 145-171) ---- *)

\* lines 36-54: init() on a browser that provides WebGL
InitCall(layout, dpr) ==
  LET c == ConstructorResult(RefLatSegments, RefLonSegments)
  IN /\ gl' = GlContext
     /\ glEnabled' = {"DEPTH_TEST", "CULL_FACE"}
     /\ panorama' = PanoramaObject
     /\ pc' = "done"
     /\ i' = RefLatSegments
     /\ UNCHANGED <<latSegments, lonSegments, panoVerts, panoIndices>>
     /\ texture' = c.texture
     /\ glProgram' = c.glProgram
     /\ vertBuffer' = c.vertBuffer
     /\ indexBuffer' = c.indexBuffer
     /\ indexCount' = c.indexCount
     /\ imgElement' = c.imgElement
     /\ glObjects' = c.glObjects
     /\ glBuffers' = c.glBuffers
     /\ glTextures' = c.glTextures
     /\ glState' = c.glState
     /\ loads' = <<[img |-> NewImage(1, "kla_office_1.jpg"), fired |-> "none",
                    promise |-> NewPromise]>>
     /\ loadEvents' = << <<"setImage", 1>> >>
     /\ canvas' = CanvasSize(layout, dpr)
     /\ rafPending' = [rafPending EXCEPT !.window = @ + 1]
     /\ UNCHANGED renderVars

\* lines 42-45: getContext returns null where WebGL is missing, and
\* gl.enable(...) on null throws; init is left before anything is built
InitThrows ==
  /\ gl' = null
  /\ UNCHANGED <<glEnabled, panorama, rendererVars, canvas, rafPending>>

\* lines 145-146: navigator.getVRDisplays exists; the displays are asked for
EntryWebVR ==
  /\ started = "load"
  /\ frameData' = NewFrameData
  /\ started' = "waiting"
  /\ UNCHANGED <<rendererVars, vrDisplay, isPresenting, vrPresentButton,
                 domButtons, notices, gl, panorama, glEnabled, canvas,
                 rafPending, tasks, presentListener, vrViewMat,
                 flatProjectionMat, frame>>

\* lines 168-171: no navigator.getVRDisplays
EntryNoWebVR(webgl, layout, dpr) ==
  /\ started = "load"
  /\ IF webgl
       THEN /\ InitCall(layout, dpr)
            /\ notices' = notices \cup {"Your browser does not support WebVR."}
            /\ started' = "running"
       ELSE /\ InitThrows
            /\ started' = "failed"
            /\ UNCHANGED notices
  /\ UNCHANGED <<vrDisplay, isPresenting, frameData, vrPresentButton,
                 domButtons, tasks, presentListener, vrViewMat,
                 flatProjectionMat, frame>>

\* lines 148-165: getVRDisplays fulfilled with k displays
DisplaysResolved(k, webgl, layout, dpr) ==
  /\ started = "waiting"
  /\ IF k > 0
       THEN /\ vrDisplay' = LastDisplay(k)
            /\ IF webgl
                 THEN /\ InitCall(layout, dpr)
                      /\ vrPresentButton' =
                           AddButton(domButtons, "Enter VR", "onVRRequestPresent")
                      /\ domButtons' = domButtons \cup {vrPresentButton'}
                      /\ presentListener' = TRUE
                      /\ started' = "running"
                 ELSE /\ InitThrows
                      /\ started' = "failed"
                      /\ UNCHANGED <<vrPresentButton, domButtons, presentListener>>
            /\ UNCHANGED notices
       ELSE /\ IF webgl
                 THEN /\ InitCall(layout, dpr)
                      /\ notices' = notices \cup
                           {"WebVR supported, but no VRDisplays found."}
                      /\ started' = "running"
                 ELSE /\ InitThrows
                      /\ started' = "failed"
                      /\ UNCHANGED notices
            /\ UNCHANGED <<vrDisplay, vrPresentButton, domButtons, presentListener>>
  /\ UNCHANGED <<isPresenting, frameData, tasks, vrViewMat, flatProjectionMat,
                 frame>>

\* lines 165-167: getVRDisplays rejected; init is not called
DisplaysRejected ==
  /\ started = "waiting"
  /\ notices' = notices \cup {"Error initializing WebVR!"}
  /\ started' = "failed"
  /\ UNCHANGED <<rendererVars, vrDisplay, isPresenting, frameData,
                 vrPresentButton, domButtons, gl, panorama, glEnabled, canvas,
                 rafPending, tasks, presentListener, vrViewMat,
                 flatProjectionMat, frame>>

(* ---- The page script vr.js: entering and leaving VR (lines 60-97) ---- *)

\* lines 60-61, 73-76: a click on a present button runs the handler it was
\* added with: onVRRequestPresent asks the display to present,
\* onVRExitPresent asks it to stop unless it is not presenting
ClickButton(b) ==
  /\ started = "running"
  /\ b \in domButtons
  /\ Pending(tasks) < MaxPending
  /\ tasks' = IF b.onclick = "onVRRequestPresent"
                THEN [tasks EXCEPT !.requestPresent = @ + 1]
                ELSE IF ~isPresenting
                  THEN tasks
                  ELSE [tasks EXCEPT !.exitPresent = @ + 1]
  /\ UNCHANGED <<rendererVars, started, vrDisplay, isPresenting, frameData,
                 vrPresentButton, domButtons, notices, gl, panorama, glEnabled,
                 canvas, rafPending, presentListener, vrViewMat,
                 flatProjectionMat, frame>>

\* line 61: the display grants requestPresent; it presents, announces the
\* change if it was not presenting, and the promise is fulfilled
DisplayPresents ==
  /\ tasks.requestPresent > 0
  /\ LET t == [tasks EXCEPT !.requestPresent = @ - 1,
                            !.presentResolved = @ + 1,
                            !.presentchange =
                               @ + (IF ~isPresenting /\ presentListener
                                      THEN 1 ELSE 0)]
     IN /\ Pending(t) <= MaxPending
        /\ tasks' = t
  /\ isPresenting' = TRUE
  /\ UNCHANGED <<rendererVars, started, vrDisplay, frameData, vrPresentButton,
                 domButtons, notices, gl, panorama, glEnabled, canvas,
                 rafPending, presentListener, vrViewMat, flatProjectionMat,
                 frame>>

\* line 61: the display refuses requestPresent; the promise is rejected
DisplayRefuses ==
  /\ tasks.requestPresent > 0
  /\ tasks' = [tasks EXCEPT !.requestPresent = @ - 1, !.presentRejected = @ + 1]
  /\ UNCHANGED <<rendererVars, started, vrDisplay, isPresenting, frameData,
                 vrPresentButton, domButtons, notices, gl, panorama, glEnabled,
                 canvas, rafPending, presentListener, vrViewMat,
                 flatProjectionMat, frame>>

\* line 76: exitPresent settles: fulfilled, with the change announced, when
\* the display was presenting, rejected when it no longer was
DisplayExits ==
  /\ tasks.exitPresent > 0
  /\ LET t == IF isPresenting
                THEN [tasks EXCEPT !.exitPresent = @ - 1,
                                   !.exitResolved = @ + 1,
                                   !.presentchange =
                                      @ + (IF presentListener THEN 1 ELSE 0)]
                ELSE [tasks EXCEPT !.exitPresent = @ - 1,
                                   !.exitRejected = @ + 1]
     IN /\ Pending(t) <= MaxPending
        /\ tasks' = t
  /\ isPresenting' = FALSE
  /\ UNCHANGED <<rendererVars, started, vrDisplay, frameData, vrPresentButton,
                 domButtons, notices, gl, panorama, glEnabled, canvas,
                 rafPending, presentListener, vrViewMat, flatProjectionMat,
                 frame>>

\* line 160: the display stops presenting on its own (headset taken off,
\* system button) and announces the change
DisplayStops ==
  /\ isPresenting
  /\ Pending(tasks) < MaxPending
  /\ isPresenting' = FALSE
  /\ tasks' = [tasks EXCEPT !.presentchange =
                              @ + (IF presentListener THEN 1 ELSE 0)]
  /\ UNCHANGED <<rendererVars, started, vrDisplay, frameData, vrPresentButton,
                 domButtons, notices, gl, panorama, glEnabled, canvas,
                 rafPending, presentListener, vrViewMat, flatProjectionMat,
                 frame>>

\* lines 61-63: requestPresent's fulfilment callback
OnRequestPresentFulfilled ==
  /\ tasks.presentResolved > 0
  /\ tasks' = [tasks EXCEPT !.presentResolved = @ - 1]
  /\ LET r == ReplaceButton(domButtons, vrPresentButton, "Exit VR",
                            "onVRExitPresent")
     IN /\ domButtons' = r.dom
        /\ vrPresentButton' = r.button
  /\ UNCHANGED <<rendererVars, started, vrDisplay, isPresenting, frameData,
                 notices, gl, panorama, glEnabled, canvas, rafPending,
                 presentListener, vrViewMat, flatProjectionMat, frame>>

\* VRSamplesUtil.addError(message, timeout): the message is shown and taken
\* away again when the timeout runs out; it leaves nothing behind
AddTimedError(shown, message) == shown

\* lines 64-70: requestPresent's rejection callback
OnRequestPresentRejected ==
  /\ tasks.presentRejected > 0
  /\ tasks' = [tasks EXCEPT !.presentRejected = @ - 1]
  /\ notices' = AddTimedError(notices, "requestPresent failed.")
  /\ UNCHANGED <<rendererVars, started, vrDisplay, isPresenting, frameData,
                 vrPresentButton, domButtons, gl, panorama, glEnabled, canvas,
                 rafPending, presentListener, vrViewMat, flatProjectionMat,
                 frame>>

\* lines 76-78: exitPresent's fulfilment callback
OnExitPresentFulfilled ==
  /\ tasks.exitResolved > 0
  /\ tasks' = [tasks EXCEPT !.exitResolved = @ - 1]
  /\ LET r == ReplaceButton(domButtons, vrPresentButton, "Enter VR",
                            "onVRRequestPresent")
     IN /\ domButtons' = r.dom
        /\ vrPresentButton' = r.button
  /\ UNCHANGED <<rendererVars, started, vrDisplay, isPresenting, frameData,
                 notices, gl, panorama, glEnabled, canvas, rafPending,
                 presentListener, vrViewMat, flatProjectionMat, frame>>

\* lines 79-81: exitPresent's rejection callback
OnExitPresentRejected ==
  /\ tasks.exitRejected > 0
  /\ tasks' = [tasks EXCEPT !.exitRejected = @ - 1]
  /\ notices' = AddTimedError(notices, "exitPresent failed.")
  /\ UNCHANGED <<rendererVars, started, vrDisplay, isPresenting, frameData,
                 vrPresentButton, domButtons, gl, panorama, glEnabled, canvas,
                 rafPending, presentListener, vrViewMat, flatProjectionMat,
                 frame>>

\* an onResize that rebuilds the index buffer for the new size
OnResizeRebuilding(layout, dpr) ==
  /\ canvas' = CanvasSize(layout, dpr)
  /\ indexBuffer' = NewHandle("buffer", glObjects)
  /\ glObjects' = glObjects \cup {indexBuffer'}
  /\ glBuffers' = glBuffers @@ (indexBuffer' :> glBuffers[indexBuffer])
  /\ UNCHANGED <<pc, meshVars, texture, glProgram, vertBuffer, indexCount,
                 imgElement, glTextures, glState, loadVars, renderVars>>
\* lines 94-97: onResize assigns the canvas size and nothing else
OnResize(layout, dpr) ==
  /\ canvas' = CanvasSize(layout, dpr)
  /\ UNCHANGED rendererVars

\* lines 84-92: the vrdisplaypresentchange listener
OnVRPresentChange(layout, dpr) ==
  /\ presentListener
  /\ tasks.presentchange > 0
  /\ tasks' = [tasks EXCEPT !.presentchange = @ - 1]
  /\ OnResize(layout, dpr)
  /\ LET r == IF isPresenting
                THEN ReplaceButton(domButtons, vrPresentButton, "Exit VR",
                                   "onVRExitPresent")
                ELSE ReplaceButton(domButtons, vrPresentButton, "Enter VR",
                                   "onVRRequestPresent")
     IN /\ domButtons' = r.dom
        /\ vrPresentButton' = r.button
  /\ UNCHANGED <<started, vrDisplay, isPresenting, frameData, notices, gl,
                 panorama, glEnabled, rafPending, presentListener, vrViewMat,
                 flatProjectionMat, frame>>

(* ---- The page script vr.js: the frame loop (lines 108-142) ---- *)

\* lines 117-134: a frame while presenting.  q is the orientation the display
\* reports for this frame.  The log starts with gl.clear and the size of the
\* drawing buffer it clears.
StereoFrame(q) ==
  LET fd == GetFrameData(q)
      V == GetPoseMatrix(fd.pose)
      left == RenderOnce(fd.leftProjectionMatrix, V)
      right == RenderOnce(fd.rightProjectionMatrix, V)
  IN /\ frameData' = fd
     /\ IF FromQuatThrows(fd.pose.orientation)
          THEN \* line 104 throws: the frame ends before the first viewport call
               /\ frame' = << <<"clear", canvas>>, <<"requestAnimationFrame", "display">>,
                              <<"getFrameData">>, <<"throw", "TypeError">> >>
               /\ UNCHANGED <<vrViewMat, lastRender, prevRender, glState>>
          ELSE /\ vrViewMat' = V
               /\ frame' = << <<"clear", canvas>>, <<"requestAnimationFrame", "display">>,
                              <<"getFrameData">>,
                              EyeViewport("left", canvas),
                              <<"render", fd.leftProjectionMatrix, V>>,
                              EyeViewport("right", canvas),
                              <<"render", fd.rightProjectionMatrix, V>>,
                              <<"submitFrame">> >>
               /\ prevRender' = left
               /\ lastRender' = right
               /\ glState' =
                    IF RenderGuard(imgElement)
                      THEN glState
                      ELSE RenderGlState(
                             RenderGlState(glState, fd.leftProjectionMatrix, V),
                             fd.rightProjectionMatrix, V)
     /\ UNCHANGED flatProjectionMat

\* lines 135-141: a frame while not presenting
FlatFrame ==
  LET P == Perspective(canvas)
  IN /\ flatProjectionMat' = P
     /\ frame' = << <<"clear", canvas>>, <<"requestAnimationFrame", "window">>,
                    FullViewport(canvas),
                    <<"perspective">>,
                    <<"render", P, Mat4Identity>> >>
     /\ prevRender' = lastRender
     /\ lastRender' = RenderOnce(P, Mat4Identity)
     /\ glState' = IF RenderGuard(imgElement)
                     THEN glState
                     ELSE RenderGlState(glState, P, Mat4Identity)
     /\ UNCHANGED <<frameData, vrViewMat>>

\* lines 108-142: one onAnimationFrame callback, requested earlier on the
\* window or on the display (a display not presenting runs its callbacks as
\* the window does)
OnAnimationFrame(source, q) ==
  /\ rafPending[source] > 0
  /\ LET fired == [rafPending EXCEPT ![source] = @ - 1]
         presenting == Truthy(vrDisplay) /\ isPresenting
     IN IF ~Truthy(gl) \/ ~Truthy(panorama)
          THEN /\ rafPending' = fired
               /\ frame' = <<>>
               /\ UNCHANGED <<frameData, vrViewMat, flatProjectionMat,
                              lastRender, prevRender, glState>>
          ELSE /\ rafPending' = RequestFrames(fired, presenting)
               /\ IF presenting THEN StereoFrame(q) ELSE FlatFrame
  /\ RenderFields
  /\ UNCHANGED <<pc, meshVars, glObjects, glBuffers, glTextures, loadVars>>
  /\ UNCHANGED <<started, vrDisplay, isPresenting, vrPresentButton, domButtons,
                 notices, gl, panorama, glEnabled, canvas, tasks,
                 presentListener>>

(* ---- The page: the script, its renderer, the browser and the display ---- *)

InitShell == ShellIdle /\ InitNew(RefLatSegments, RefLonSegments)

NextShell ==
  \/ EntryWebVR
  \/ \E webgl \in BOOLEAN, layout \in Layouts, dpr \in DevicePixelRatios :
       EntryNoWebVR(webgl, layout, dpr)
  \/ \E k \in DisplayCounts, webgl \in BOOLEAN, layout \in Layouts,
        dpr \in DevicePixelRatios :
       DisplaysResolved(k, webgl, layout, dpr)
  \/ DisplaysRejected
  \/ \E n \in 1..MaxLoads : OnLoad(n)
  \/ \E n \in 1..MaxLoads : OnError(n)
  \/ \E b \in domButtons : ClickButton(b)
  \/ DisplayPresents
  \/ DisplayRefuses
  \/ DisplayExits
  \/ DisplayStops
  \/ OnRequestPresentFulfilled
  \/ OnRequestPresentRejected
  \/ OnExitPresentFulfilled
  \/ OnExitPresentRejected
  \/ \E layout \in Layouts, dpr \in DevicePixelRatios :
       OnVRPresentChange(layout, dpr)
  \/ \E source \in {"window", "display"}, q \in Orientations :
       OnAnimationFrame(source, q)

SpecShell == InitShell /\ [][NextShell]_vars

(* ---- Observations used by the properties ---- *)

\* positions of the event log, among its first `at` entries, of a given kind
EventsBefore(kind, at) == {e \in 1..at : loadEvents[e][1] = kind}
\* the draw calls among the GL calls of one render
DrawCalls(calls) == {c \in 1..Len(calls) : calls[c][1] = "drawElements"}
Constructed == pc = "done"

(* ---- C1 ---- *)

NoDrawBeforeLoad(r) ==
  (r.called /\ EventsBefore("load", r.at) = {}) =>
     /\ r.calls = <<>>
     /\ DrawCalls(r.calls) = {}

\* C1: a render call made while no setImage call has completed successfully
\* (fresh renderer, loads pending, loads failed) issues no graphics call at
\* all, hence zero draw calls, whatever the matrices.
C1_RenderNoOpBeforeLoad ==
  /\ NoDrawBeforeLoad(lastRender)
  /\ NoDrawBeforeLoad(prevRender)
  /\ (Constructed /\ EventsBefore("load", Len(loadEvents)) = {}) => imgElement = null

\* two render calls, the later one after a failed load and with a load still
\* pending, both without a draw call
C1_Witness ==
  /\ prevRender.called /\ lastRender.called
  /\ prevRender.at = 0
  /\ EventsBefore("error", lastRender.at) # {}
  /\ EventsBefore("load", lastRender.at) = {}
  /\ \E n \in 1..Len(loads) : loads[n].fired = "none"
  /\ lastRender.projectionMat # prevRender.projectionMat
  /\ lastRender.calls = <<>>

(* ---- C2 ---- *)

ReadyDraw(r) ==
  (r.called /\ EventsBefore("load", r.at) # {}) =>
     /\ Cardinality(DrawCalls(r.calls)) = 1
     /\ \A c \in DrawCalls(r.calls) :
          r.calls[c] = <<"drawElements", "TRIANGLES", indexCount,
                         "UNSIGNED_SHORT", 0>>

\* C2: once a setImage call's image has loaded, that call's promise is
\* fulfilled and the stored image is set (Ready), and every render call made
\* from then on issues exactly one drawElements call whose count is the index
\* count recorded at construction, the full 6 * latSegments * lonSegments.
C2_LoadThenRenderDraws ==
  /\ \A n \in 1..Len(loads) :
       loads[n].fired = "load" =>
         /\ loads[n].promise.state = "fulfilled"
         /\ Truthy(imgElement)
  /\ Constructed => indexCount = 6 * latSegments * lonSegments
  /\ ReadyDraw(lastRender)
  /\ ReadyDraw(prevRender)

C2_Witness ==
  /\ Len(loads) >= 1
  /\ loads[1].fired = "load"
  /\ loads[1].promise.state = "fulfilled"
  /\ prevRender.called /\ prevRender.at >= 2
  /\ lastRender.called
  /\ Cardinality(DrawCalls(lastRender.calls)) = 1
  /\ Cardinality(DrawCalls(prevRender.calls)) = 1

(* ---- C3 ---- *)

\* C3: a setImage call whose image fails has its promise rejected, and while
\* no load has succeeded the stored image stays null, so a render call after
\* the failure issues no draw call.
C3_FailedLoadKeepsNoOp ==
  /\ \A n \in 1..Len(loads) :
       loads[n].fired = "error" => loads[n].promise.state = "rejected"
  /\ (EventsBefore("error", Len(loadEvents)) # {}
        /\ EventsBefore("load", Len(loadEvents)) = {}) =>
       /\ ~Truthy(imgElement)
       /\ (lastRender.called /\ EventsBefore("error", lastRender.at) # {}) =>
            DrawCalls(lastRender.calls) = {}

C3_Witness ==
  /\ Len(loads) >= 1
  /\ loads[1].fired = "error"
  /\ loads[1].promise.state = "rejected"
  /\ EventsBefore("load", Len(loadEvents)) = {}
  /\ lastRender.called
  /\ lastRender.at >= 2
  /\ lastRender.calls = <<>>

(* ---- C4 ---- *)

LastEvent(kind) ==
  LET S == EventsBefore(kind, Len(loadEvents))
  IN CHOOSE e \in S : \A f \in S : f <= e

\* the step appends an 'error' event: one load has just failed
ErrorStep ==
  /\ Len(loadEvents') = Len(loadEvents) + 1
  /\ loadEvents'[Len(loadEvents')][1] = "error"

\* C4 as stated: whenever the latest completion is a failure the renderer is
\* textureless and a render after it draws nothing, whatever loaded before.
C4_FailureMakesTextureless ==
  \A e \in EventsBefore("error", Len(loadEvents)) :
    (\A f \in EventsBefore("load", Len(loadEvents)) : f < e) =>
       /\ ~Truthy(imgElement)
       /\ (lastRender.called /\ lastRender.at >= e) =>
            DrawCalls(lastRender.calls) = {}

\* C4 as amended: a load failure leaves the texture readiness where it was.
\* The step in which a load fails changes neither the stored image nor any
\* texture: the renderer stays textureless if no load had succeeded, and stays
\* Ready with the last loaded image if one had.
C4_FailureKeepsReadiness ==
  [][ErrorStep => /\ imgElement' = imgElement
                  /\ glTextures' = glTextures
                  /\ (Truthy(imgElement') <=>
                        EventsBefore("load", Len(loadEvents)) # {})]_vars

\* a failure after a success, and a render after the failure that still draws
C4_Witness ==
  /\ EventsBefore("error", Len(loadEvents)) # {}
  /\ EventsBefore("load", Len(loadEvents)) # {}
  /\ LastEvent("load") < LastEvent("error")
  /\ Truthy(imgElement)
  /\ lastRender.called
  /\ lastRender.at >= LastEvent("error")
  /\ Cardinality(DrawCalls(lastRender.calls)) = 1

(* ---- C5 ---- *)

\* C5: after any successful completions, the stored image and the content of
\* the texture are the image of the setImage call whose load event ran last,
\* whichever call was issued last.
C5_LastCompletedWins ==
  EventsBefore("load", Len(loadEvents)) # {} =>
    LET n == loadEvents[LastEvent("load")][2]
    IN /\ imgElement = loads[n].img
       /\ glTextures[texture].image = loads[n].img

\* two calls in flight at once, the second completing first: the first call's
\* image is the one left in place
C5_Witness ==
  /\ Len(loadEvents) = 4
  /\ loadEvents[1] = <<"setImage", 1>>
  /\ loadEvents[2] = <<"setImage", 2>>
  /\ loadEvents[3] = <<"load", 2>>
  /\ loadEvents[4] = <<"load", 1>>
  /\ loads[1].img.src # loads[2].img.src
  /\ imgElement = loads[1].img
  /\ glTextures[texture].image = loads[1].img

(* ---- C6 ---- *)

\* the step is a render call: it is recorded as the most recent one
RenderStep == lastRender' # lastRender \/ prevRender' # prevRender

\* C6: a render call leaves the renderer's fields (texture, imgElement,
\* vertBuffer, indexBuffer, indexCount, glProgram) as they were, and with them
\* the objects behind them: no buffer or texture store is written or created.
C6_RenderKeepsRendererState ==
  [][RenderStep => UNCHANGED <<texture, imgElement, vertBuffer, indexBuffer,
                               indexCount, glProgram, glBuffers, glTextures,
                               glObjects>>]_vars

\* a render that drew (Ready) after one that did not
C6_Witness ==
  /\ prevRender.called /\ prevRender.calls = <<>>
  /\ lastRender.called /\ Len(lastRender.calls) = 13
  /\ Truthy(imgElement)
  /\ indexCount = 6 * RefLatSegments * RefLonSegments

(* ---- C7 ---- *)

Uploads(r) ==
  /\ <<"uniformMatrix4fv", "projectionMat", FALSE, r.projectionMat>>
       \in {r.calls[c] : c \in 2..3}
  /\ <<"uniformMatrix4fv", "modelViewMat", FALSE, r.modelViewMat>>
       \in {r.calls[c] : c \in 2..3}
  /\ Cardinality({c \in 1..Len(r.calls) : r.calls[c][1] = "uniformMatrix4fv"}) = 2

\* C7: two consecutive render calls in the Ready state with the same view
\* matrix each upload their own projection matrix and that view matrix and
\* each issue exactly one draw call: two draw calls, with the same count.
C7_StereoPair ==
  (/\ prevRender.called /\ lastRender.called
   /\ EventsBefore("load", prevRender.at) # {}
   /\ prevRender.modelViewMat = lastRender.modelViewMat) =>
     /\ Uploads(prevRender)
     /\ Uploads(lastRender)
     /\ Cardinality(DrawCalls(prevRender.calls)) = 1
     /\ Cardinality(DrawCalls(lastRender.calls)) = 1
     /\ \A c \in DrawCalls(prevRender.calls), d \in DrawCalls(lastRender.calls) :
          /\ prevRender.calls[c] = lastRender.calls[d]
          /\ prevRender.calls[c][3] = indexCount

C7_Witness ==
  /\ prevRender.called /\ lastRender.called
  /\ EventsBefore("load", prevRender.at) # {}
  /\ prevRender.projectionMat = "Pl"
  /\ lastRender.projectionMat = "Pr"
  /\ prevRender.modelViewMat = "V1"
  /\ lastRender.modelViewMat = "V1"
  /\ prevRender.calls[2][4] = "Pl"
  /\ lastRender.calls[2][4] = "Pr"
  /\ Cardinality(DrawCalls(prevRender.calls)) + Cardinality(DrawCalls(lastRender.calls)) = 2

(* ---- C8 ---- *)

\* C8: two consecutive render calls with the same matrices and no load
\* completing between them issue the same sequence of graphics-context calls.
C8_RenderIdempotent ==
  (/\ prevRender.called /\ lastRender.called
   /\ prevRender.projectionMat = lastRender.projectionMat
   /\ prevRender.modelViewMat = lastRender.modelViewMat
   /\ \A e \in (prevRender.at + 1)..lastRender.at :
        loadEvents[e][1] = "setImage") =>
     lastRender.calls = prevRender.calls

\* the same render twice in the Ready state, a setImage call started between
C8_Witness ==
  /\ prevRender.called /\ lastRender.called
  /\ prevRender.projectionMat = lastRender.projectionMat
  /\ prevRender.modelViewMat = lastRender.modelViewMat
  /\ lastRender.at = prevRender.at + 1
  /\ loadEvents[lastRender.at][1] = "setImage"
  /\ Len(prevRender.calls) = 13
  /\ lastRender.calls = prevRender.calls

(* ---- C9 ---- *)

VertexCount == Len(panoVerts) \div FloatsPerVertex

\* C9: when the two generation loops have run, for latSegments = L and
\* lonSegments = N, panoVerts holds exactly (L+1)(N+1) vertices of 5 numbers,
\* panoIndices holds exactly 6*L*N indices, each of them in [0, vertex count),
\* and the index count the constructor records is that 6*L*N.
C9_MeshCounts ==
  /\ pc \in {"vertBuffer", "indexBuffer"} =>
       /\ Len(panoVerts) = FloatsPerVertex * VertexCount
       /\ VertexCount = (latSegments + 1) * (lonSegments + 1)
       /\ Len(panoIndices) = 6 * latSegments * lonSegments
       /\ \A k \in 1..Len(panoIndices) :
            panoIndices[k] >= 0 /\ panoIndices[k] < VertexCount
  /\ pc = "done" => indexCount = 6 * latSegments * lonSegments

\* a 2 x 3 tessellation: 12 vertices, 36 indices, the largest index 11 in use
C9_Witness ==
  /\ pc = "indexBuffer"
  /\ latSegments = 2
  /\ lonSegments = 3
  /\ VertexCount = 12
  /\ Len(panoIndices) = 36
  /\ \E k \in 1..Len(panoIndices) : panoIndices[k] = 11
  /\ \E k \in 1..Len(panoIndices) : panoIndices[k] = 0

(* ---- C10 ---- *)

\* C10: the texture created by the constructor is the only texture the
\* context ever holds and this.texture always names it; every successful load
\* is one more upload into that texture, a failed load none.
C10_TextureInPlace ==
  Constructed =>
    /\ texture = Handle("texture", 1)
    /\ {o \in glObjects : o.type = "texture"} = {texture}
    /\ DOMAIN glTextures = {texture}
    /\ glTextures[texture].uploads =
         Cardinality(EventsBefore("load", Len(loadEvents)))
    /\ glState.texture2D \in {null, texture}

C10_Witness ==
  /\ Cardinality(EventsBefore("load", Len(loadEvents))) = 2
  /\ glTextures[texture].uploads = 2
  /\ texture = Handle("texture", 1)
  /\ DOMAIN glTextures = {texture}

(* ---- C11 ---- *)

\* C11: once the renderer is constructed, no step of the page (a load
\* completing or failing, a frame with its render calls, a present change with
\* its onResize, a click) changes vertBuffer, indexBuffer, indexCount or
\* glProgram, nor the data stores of the buffers.
C11_MeshAndProgramFixed ==
  [][pc = "done" =>
       /\ UNCHANGED <<vertBuffer, indexBuffer, indexCount, glProgram>>
       /\ glBuffers' = glBuffers
       /\ {o \in glObjects' : o.type \in {"buffer", "program"}}
            = {o \in glObjects : o.type \in {"buffer", "program"}}]_vars

\* the image has loaded, a frame drew at one canvas size, onResize has since
\* given the canvas another size, and the mesh is the one constructed
C11_Witness ==
  /\ pc = "done"
  /\ flatProjectionMat.a = 375
  /\ canvas.width = 750
  /\ Truthy(imgElement)
  /\ lastRender.called
  /\ Len(lastRender.calls) = 13
  /\ vertBuffer = Handle("buffer", 1)
  /\ indexBuffer = Handle("buffer", 2)
  /\ indexCount = 6 * RefLatSegments * RefLonSegments

(* ---- C13 ---- *)

StereoTick == frame # <<>> /\ frame[2][2] = "display"
FlatTick == frame # <<>> /\ frame[2][2] = "window"
FrameRenders == {c \in 1..Len(frame) : frame[c][1] = "render"}
FrameThrew == \E c \in 1..Len(frame) : frame[c][1] = "throw"

FrameRendersAsClaimed ==
  /\ FlatTick => Cardinality(FrameRenders) = 1
  /\ StereoTick =>
       /\ Cardinality(FrameRenders) = 2
       /\ \E c, d \in FrameRenders :
            /\ c < d
            /\ frame[c - 1] = <<"viewport", Num(0), Num(0),
                                Half(frame[1][2].width), Num(frame[1][2].height)>>
            /\ frame[c][2] = Mat4("leftProjectionMatrix", 0, 0, null)
            /\ frame[d - 1] = <<"viewport", Half(frame[1][2].width), Num(0),
                                Half(frame[1][2].width), Num(frame[1][2].height)>>
            /\ frame[d][2] = Mat4("rightProjectionMatrix", 0, 0, null)
            /\ frame[c][3] = frame[d][3]
            /\ frame[c][3] = GetPoseMatrix(frameData.pose)

\* C13: the most recent frame tick called render exactly once if it ran flat
\* and exactly twice if it ran while presenting, then first with the left
\* half of the drawing buffer as viewport and the left projection matrix, then
\* with the right half and the right projection matrix, both with the one
\* view matrix computed from that frame's pose.
C13_FrameRenders == FrameRendersAsClaimed

\* the same, for the frames that did not end in an exception: this much holds
C13_FrameRendersUnlessThrown == FrameThrew \/ FrameRendersAsClaimed

(* ---- C18 ---- *)

FramesOutstanding(pending) == pending.window + pending.display

\* C18: from the step in which init requests the first frame, exactly one
\* onAnimationFrame callback is outstanding after every step, and none
\* before; each frame requests its successor on the display if the display
\* is presenting and on the window if not.
C18_OneFrameOutstanding ==
  [][/\ started' = "running" => FramesOutstanding(rafPending') = 1
     /\ started' # "running" => FramesOutstanding(rafPending') = 0
     /\ frame' # frame =>
          frame'[2] = <<"requestAnimationFrame",
                        IF isPresenting THEN "display" ELSE "window">>]_vars

\* VR was entered and left again: the one callback outstanding is the one
\* the last stereo frame requested on the display
C18_Witness ==
  /\ started = "running"
  /\ ~isPresenting
  /\ Truthy(vrPresentButton)
  /\ vrPresentButton.text = "Enter VR"
  /\ StereoTick
  /\ Cardinality(FrameRenders) = 2
  /\ rafPending = [window |-> 0, display |-> 1]

(* ---- C19 ---- *)

\* C19: when a VR display was found and start-up has run through, the
\* document holds exactly one present button, the one vrPresentButton refers
\* to, after every handler, in whatever order the requestPresent and
\* exitPresent callbacks and the vrdisplaypresentchange events run.
C19_OnePresentButton ==
  (started = "running" /\ Truthy(vrDisplay)) =>
     /\ domButtons = {vrPresentButton}
     /\ Cardinality(domButtons) = 1
     /\ vrPresentButton.text \in {"Enter VR", "Exit VR"}

\* requestPresent's callback ran after the display had already stopped and
\* the change had been handled: one button, reading "Exit VR"
C19_Witness ==
  /\ started = "running"
  /\ Truthy(vrDisplay)
  /\ ~isPresenting
  /\ tasks = NoTasks
  /\ vrPresentButton.text = "Exit VR"
  /\ domButtons = {vrPresentButton}

(* ---- C12 ---- *)

\* among the first `at` events: a call failed, a call issued after that
\* failure has loaded
RetrySucceeded(at) ==
  \E f \in 1..at :
    /\ loadEvents[f][1] = "load"
    /\ \E s \in 1..(f - 1) :
         /\ loadEvents[s] = <<"setImage", loadEvents[f][2]>>
         /\ \E e \in 1..(s - 1) : loadEvents[e][1] = "error"

\* C12: after a setImage call has been rejected, a setImage call issued later
\* whose image loads is fulfilled and leaves the stored image set, and a
\* render after it issues exactly one draw call; every load there is was
\* started by a setImage call of the caller, never by the renderer itself.
C12_RetryAfterFailure ==
  /\ Len(loads) = Cardinality(EventsBefore("setImage", Len(loadEvents)))
  /\ RetrySucceeded(Len(loadEvents)) =>
       /\ Truthy(imgElement)
       /\ \A n \in 1..Len(loads) :
            loads[n].fired = "load" => loads[n].promise.state = "fulfilled"
  /\ (lastRender.called /\ RetrySucceeded(lastRender.at)) =>
       Cardinality(DrawCalls(lastRender.calls)) = 1

\* the first call fails, the renderer draws nothing, the second call, issued
\* after the failure with another locator, loads, and the next render draws
C12_Witness ==
  /\ Len(loadEvents) = 4
  /\ loadEvents[1] = <<"setImage", 1>>
  /\ loadEvents[2] = <<"error", 1>>
  /\ loadEvents[3] = <<"setImage", 2>>
  /\ loadEvents[4] = <<"load", 2>>
  /\ loads[1].promise.state = "rejected"
  /\ loads[2].promise.state = "fulfilled"
  /\ loads[1].img.src # loads[2].img.src
  /\ prevRender.called /\ prevRender.at = 2 /\ prevRender.calls = <<>>
  /\ lastRender.called /\ lastRender.at = 4
  /\ Cardinality(DrawCalls(lastRender.calls)) = 1

(* ---- C14 ---- *)

\* the texture holds the finished upload of img, filtered and clamped
UploadComplete(img) ==
  /\ texture \in DOMAIN glTextures
  /\ glTextures[texture].image = img
  /\ glTextures[texture].uploads >= 1
  /\ glTextures[texture].magFilter = "LINEAR"
  /\ glTextures[texture].minFilter = "LINEAR"
  /\ glTextures[texture].wrapS = "CLAMP_TO_EDGE"
  /\ glTextures[texture].wrapT = "CLAMP_TO_EDGE"

\* C14: handlers run one at a time, so every state a render call can start
\* in lies between handlers; in each such state with the stored image set,
\* the texture holds the completed upload and the filter and wrap settings of
\* that same image, and a render that drew bound that texture.
C14_UploadAtomic ==
  /\ Truthy(imgElement) => UploadComplete(imgElement)
  /\ \A c \in DrawCalls(lastRender.calls) :
       /\ Truthy(imgElement)
       /\ <<"bindTexture", "TEXTURE_2D", texture>>
            \in {lastRender.calls[d] : d \in {c - 1}}

\* a second image uploaded over the first, and a render drawing after it
C14_Witness ==
  /\ Len(loads) = 2
  /\ loads[1].fired = "load" /\ loads[2].fired = "load"
  /\ glTextures[texture].uploads = 2
  /\ UploadComplete(imgElement)
  /\ lastRender.called /\ lastRender.at = Len(loadEvents)
  /\ DrawCalls(lastRender.calls) # {}

(* ---- C15 ---- *)

\* the stage of render a graphics-context call belongs to
RenderStage(call) ==
  CASE call[1] = "useProgram" -> 1
    [] call[1] = "uniformMatrix4fv" -> 2
    [] call[1] = "bindBuffer" -> 3
    [] call[1] \in {"enableVertexAttribArray", "vertexAttribPointer"} -> 4
    [] call[1] \in {"activeTexture", "uniform1i", "bindTexture"} -> 5
    [] call[1] = "drawElements" -> 6
    [] OTHER -> 0

CallsNamed(calls, name) == {c \in 1..Len(calls) : calls[c][1] = name}

InRenderOrder(r) ==
  r.calls # <<>> =>
    LET stages == [c \in 1..Len(r.calls) |-> RenderStage(r.calls[c])]
    IN /\ \A c \in 1..(Len(stages) - 1) :
            stages[c] \in 1..5 /\ stages[c] <= stages[c + 1]
       /\ stages[Len(stages)] = 6
       /\ {stages[c] : c \in 1..Len(stages)} = 1..6
       /\ r.calls[1] = <<"useProgram", glProgram>>
       /\ {r.calls[c][2] : c \in CallsNamed(r.calls, "uniformMatrix4fv")}
            = {"projectionMat", "modelViewMat"}
       /\ {<<r.calls[c][2], r.calls[c][3]>> :
              c \in CallsNamed(r.calls, "bindBuffer")}
            = {<<"ARRAY_BUFFER", vertBuffer>>,
               <<"ELEMENT_ARRAY_BUFFER", indexBuffer>>}
       /\ {r.calls[c][2] : c \in CallsNamed(r.calls, "enableVertexAttribArray")}
            = {"position", "texCoord"}
       /\ {r.calls[c][2] : c \in CallsNamed(r.calls, "vertexAttribPointer")}
            = {"position", "texCoord"}
       /\ \A c \in CallsNamed(r.calls, "activeTexture") : r.calls[c][2] = 0
       /\ \A c \in CallsNamed(r.calls, "bindTexture") :
            /\ r.calls[c][3] = texture
            /\ \E d \in CallsNamed(r.calls, "activeTexture") : d < c

\* C15: a render call in the Ready state uses the program, then uploads the
\* two matrices, then binds the vertex and index buffers, then enables and
\* lays out position and texCoord, then selects texture unit 0 and binds the
\* texture, and last of all issues its one draw call.
C15_RenderCallOrder ==
  /\ InRenderOrder(lastRender)
  /\ (lastRender.called /\ EventsBefore("load", lastRender.at) # {}) =>
       lastRender.calls # <<>>

C15_Witness ==
  /\ lastRender.called
  /\ Truthy(imgElement)
  /\ Len(lastRender.calls) = 13
  /\ RenderStage(lastRender.calls[1]) = 1
  /\ RenderStage(lastRender.calls[12]) = 5
  /\ lastRender.calls[13][1] = "drawElements"

(* ---- C16 ---- *)

\* C16: a setImage call's promise, once settled, never changes again, and a
\* fulfilled promise carries the Image created by that same call, in whatever
\* order the calls in flight complete.
C16_SettlesOnceWithOwnImage ==
  [][/\ \A n \in 1..Len(loads) :
          loads[n].promise.state # "pending" =>
            loads'[n].promise = loads[n].promise
     /\ \A n \in 1..Len(loads') :
          loads'[n].promise.state = "fulfilled" =>
            /\ loads'[n].promise.value = loads'[n].img
            /\ loads'[n].promise.value.id = n]_vars

\* two calls in flight together, the later one completing first, each
\* fulfilled with its own image
C16_Witness ==
  /\ Len(loadEvents) = 4
  /\ loadEvents[2] = <<"setImage", 2>>
  /\ loadEvents[3] = <<"load", 2>>
  /\ loadEvents[4] = <<"load", 1>>
  /\ loads[1].promise = [state |-> "fulfilled", value |-> loads[1].img]
  /\ loads[2].promise = [state |-> "fulfilled", value |-> loads[2].img]
  /\ loads[1].img # loads[2].img

(* ---- C17 ---- *)

\* C17: from the first successful load on, the stored image is set in every
\* state, whatever step follows (a load started, a load failed, a render),
\* and every render call made from then on issues a draw call.
C17_ReadyAbsorbing ==
  [][EventsBefore("load", Len(loadEvents)) # {} =>
       /\ Truthy(imgElement)
       /\ Truthy(imgElement')
       /\ RenderStep => DrawCalls(lastRender'.calls) # {}]_vars

\* after a load: another call started, that call failed, and a render that
\* still draws
C17_Witness ==
  /\ Len(loadEvents) = 4
  /\ loadEvents[2] = <<"load", 1>>
  /\ loadEvents[3] = <<"setImage", 2>>
  /\ loadEvents[4] = <<"error", 2>>
  /\ imgElement = loads[1].img
  /\ lastRender.called /\ lastRender.at = 4
  /\ DrawCalls(lastRender.calls) # {}

(* ---- C20 ---- *)

\* C20: when the index loop has run, for the reference 40 x 40 tessellation
\* (and for every smaller one tried), each index lies in [0, 2^16), so the
\* Uint16Array made from panoIndices holds every index unchanged, and the
\* index buffer holds indexCount elements of two bytes, the UNSIGNED_SHORT
\* that drawElements reads.
C20_IndicesFitUint16 ==
  /\ pc \in {"vertBuffer", "indexBuffer"} =>
       /\ \A k \in 1..Len(panoIndices) :
            /\ panoIndices[k] >= 0
            /\ panoIndices[k] < Uint16Modulus
       /\ Uint16Array(panoIndices) = panoIndices
  /\ pc = "done" =>
       /\ indexCount * Uint16Bytes = glBuffers[indexBuffer].size
       /\ (latSegments + 1) * (lonSegments + 1) <= Uint16Modulus

\* the reference tessellation: 9600 indices, the largest, 1680, stored as is
C20_Witness ==
  /\ pc = "indexBuffer"
  /\ latSegments = RefLatSegments
  /\ lonSegments = RefLonSegments
  /\ Len(panoIndices) = 9600
  /\ panoIndices[Len(panoIndices) - 1] = 1680
  /\ Uint16Array(panoIndices)[Len(panoIndices) - 1] = 1680

====
